---- MODULE Spec2Model ----
(***************************************************************************)
(* Model of src/src/lib/mplayerManager.ts (class MPlayerManager).          *)
(*                                                                         *)
(* The host is a single-threaded event loop.  Every macrotask (a call of   *)
(* the public API, a 'data' / 'exit' / 'error' event of a child process, a *)
(* timer firing) runs to completion; every promise reaction is a microtask *)
(* taken from the FIFO queue mq; events and timers are delivered only when *)
(* mq is empty.  An EventEmitter calls the listeners that were registered  *)
(* when emit started, in registration order, even if one of them removes   *)
(* the others meanwhile.  A settled promise ignores later resolve/reject.  *)
(* An exception thrown by a listener ends that emit; the event loop goes   *)
(* on with the next task.                                                  *)
(***************************************************************************)
EXTENDS Integers, Sequences, FiniteSets

\* ---------------------------------------------------------------- bounds
MaxOps == 2
MaxShutdowns == 1
MaxRepeats == 3
MaxLines == 2
LiveMaxLines == 1

\* ------------------------------------------------------------- constants
DEFAULT_OP_TIMEOUT == 2000

Ops == 1..MaxOps
Procs == 1..MaxOps
Shuts == 1..MaxRepeats

NL == "\n"
Chars == {"s", "a", NL}
\* the readiness signature 'CPLAYER: MPlayer', one symbol of the alphabet
Signature == <<"s">>
\* the pattern the callers' classifiers look for
Answer == <<"a">>

\* the lines a process writes: its banner, an answer
Lines == {Signature, Answer}

\* lines.join('\n'), the text of a chunk that carries these lines
RECURSIVE Join(_)
Join(ls) ==
    IF Len(ls) = 1 THEN Head(ls) ELSE Head(ls) \o <<NL>> \o Join(Tail(ls))

\* the chunks a 'data' event may carry: up to MaxLines lines
ChunksOf(m) == {Join(ls) : ls \in UNION {[1..n -> Lines] : n \in 1..m}}
Chunks == ChunksOf(MaxLines)
ExitInfos == {<<"1", "null">>, <<"null", "SIGTERM">>}
Errors == {"ENOENT"}
Timeouts == {0, DEFAULT_OP_TIMEOUT}
Kinds == {"resolver", "rejecter"}

VARIABLES
    mplayerProc,  \* this.mplayerProc: the process the handle refers to, 0 = undefined
    ready,        \* this.ready
    nspawn,       \* number of proc.spawn calls so far; the n-th child is process n
    pstate,       \* per process: "none", "running", "exited", "errored"
    killed,       \* per process: kill() was called on it
    lsn,          \* per process: the listener lists of stdout, stderr, exit, error
    nops,         \* number of doOperation calls so far
    opTimeout,    \* per operation: its timeout argument
    opKind,       \* per operation: its processData argument
    opRes,        \* per operation: the promise doOperation returned
    rdy,          \* per operation: the promise of its readyMPlayer call
    sdRes,        \* per operation: the promise of the shutdown call of its readyMPlayer
    nshut,        \* number of shutdown calls made by the caller
    xRes,         \* per caller shutdown: the promise it returned
    timer,        \* per operation: "off", "armed", "fired", "cleared"
    mq,           \* the microtask queue
    subTo,        \* per operation: the process its listeners were attached to
    emitTo,       \* per operation: the process its command was written to
    subAtEmit,    \* per operation: its listeners were attached when op was invoked
    pexit,        \* per process: what its exit or error event reported
    procOf,       \* per operation: the process its spawnMPlayer spawned, 0 = none
    xProc,        \* per caller shutdown: the process it sent the signal to, 0 = none
    sigSeen,      \* per process: its stdout has carried the readiness signature
    execd,        \* what exec did in the last step: "no", "wrote", "threw"
    inv,          \* per operation: lines given to processData by the last step
    lastLines,    \* the lines of the chunk the last step delivered
    lastProc      \* the process whose event the last step delivered, 0 = none

vars == <<mplayerProc, ready, nspawn, pstate, killed, lsn, nops, opTimeout, opKind,
          opRes, rdy, sdRes, nshut, xRes, timer, mq, subTo, emitTo, subAtEmit,
          pexit, procOf, xProc, sigSeen, execd, inv, lastLines, lastProc>>

\* ---------------------------------------------------------------- values
None == <<"none">>
Pending == <<"pending">>
Resolved(v) == <<"resolved", v>>
Rejected(r) == <<"rejected", r>>
Void == <<>>
TimedOut == <<"Timed out">>

IsSettled(pr) == pr[1] \in {"resolved", "rejected"}

NoListeners == [out |-> <<>>, err |-> <<>>, exit |-> <<>>, error |-> <<>>]

Remove(seq, l) == SelectSeq(seq, LAMBDA x : x # l)
Has(seq, l) == \E i \in 1..Len(seq) : seq[i] = l

\* The state as one record, so that a handler is a function from state to state.
Cur ==
    [mplayerProc |-> mplayerProc, ready |-> ready, nspawn |-> nspawn,
     pstate |-> pstate, killed |-> killed, lsn |-> lsn, nops |-> nops,
     opTimeout |-> opTimeout, opKind |-> opKind, opRes |-> opRes, rdy |-> rdy,
     sdRes |-> sdRes, nshut |-> nshut, xRes |-> xRes, timer |-> timer, mq |-> mq,
     subTo |-> subTo, emitTo |-> emitTo, subAtEmit |-> subAtEmit, pexit |-> pexit,
     procOf |-> procOf, xProc |-> xProc, sigSeen |-> sigSeen, execd |-> "no",
     inv |-> [o \in Ops |-> <<>>], lastLines |-> <<>>, lastProc |-> 0]

Install(s) ==
    /\ mplayerProc' = s.mplayerProc
    /\ ready' = s.ready
    /\ nspawn' = s.nspawn
    /\ pstate' = s.pstate
    /\ killed' = s.killed
    /\ lsn' = s.lsn
    /\ nops' = s.nops
    /\ opTimeout' = s.opTimeout
    /\ opKind' = s.opKind
    /\ opRes' = s.opRes
    /\ rdy' = s.rdy
    /\ sdRes' = s.sdRes
    /\ nshut' = s.nshut
    /\ xRes' = s.xRes
    /\ timer' = s.timer
    /\ mq' = s.mq
    /\ subTo' = s.subTo
    /\ emitTo' = s.emitTo
    /\ subAtEmit' = s.subAtEmit
    /\ pexit' = s.pexit
    /\ procOf' = s.procOf
    /\ xProc' = s.xProc
    /\ sigSeen' = s.sigSeen
    /\ execd' = s.execd
    /\ inv' = s.inv
    /\ lastLines' = s.lastLines
    /\ lastProc' = s.lastProc

Init ==
    /\ mplayerProc = 0
    /\ ready = FALSE
    /\ nspawn = 0
    /\ pstate = [p \in Procs |-> "none"]
    /\ killed = [p \in Procs |-> FALSE]
    /\ lsn = [p \in Procs |-> NoListeners]
    /\ nops = 0
    /\ opTimeout = [o \in Ops |-> 0]
    /\ opKind = [o \in Ops |-> "resolver"]
    /\ opRes = [o \in Ops |-> None]
    /\ rdy = [o \in Ops |-> None]
    /\ sdRes = [o \in Ops |-> None]
    /\ nshut = 0
    /\ xRes = [x \in Shuts |-> None]
    /\ timer = [o \in Ops |-> "off"]
    /\ mq = <<>>
    /\ subTo = [o \in Ops |-> 0]
    /\ emitTo = [o \in Ops |-> 0]
    /\ subAtEmit = [o \in Ops |-> FALSE]
    /\ pexit = [p \in Procs |-> None]
    /\ procOf = [o \in Ops |-> 0]
    /\ xProc = [x \in Shuts |-> 0]
    /\ sigSeen = [p \in Procs |-> FALSE]
    /\ execd = "no"
    /\ inv = [o \in Ops |-> <<>>]
    /\ lastLines = <<>>
    /\ lastProc = 0

\* ------------------------------------------------------- pure functions
\* chunk.split('\n')
RECURSIVE SplitFrom(_, _)
SplitFrom(c, cur) ==
    IF c = <<>> THEN <<cur>>
    ELSE IF Head(c) = NL THEN <<cur>> \o SplitFrom(Tail(c), <<>>)
    ELSE SplitFrom(Tail(c), Append(cur, Head(c)))

Split(chunk) == SplitFrom(chunk, <<>>)

\* data.includes(pat)
Includes(data, pat) ==
    \E i \in 0..(Len(data) - Len(pat)) :
        \A j \in 1..Len(pat) : data[i + j] = pat[j]

\* `MPLAYER exited (${code} - ${signal})`
ExitReason(info) == <<"MPLAYER exited (", info[1], " - ", info[2], ")">>

ErrReason(e) == <<"Error", e>>

\* The callers' classifiers: a resolver resolves with the line that holds the
\* answer, a rejecter rejects with it; any other line leaves the verdict open.
processData(kind, data) ==
    IF ~Includes(data, Answer) THEN <<"none">>
    ELSE IF kind = "resolver" THEN <<"resolve", data>>
    ELSE <<"reject", data>>

\* ------------------------------------------------------------- promises
ResolveOp(s, o, v) ==
    IF s.opRes[o] = Pending THEN [s EXCEPT !.opRes[o] = Resolved(v)] ELSE s

\* a reject that overwrites an outcome already reached
RejectOpOverwrite(s, o, r) == [s EXCEPT !.opRes[o] = Rejected(r)]

RejectOp(s, o, r) ==
    IF s.opRes[o] = Pending THEN [s EXCEPT !.opRes[o] = Rejected(r)] ELSE s

\* readyMPlayer's promise; doOperation's two reactions are queued when it settles
ResolveRdy(s, o) ==
    IF s.rdy[o] = Pending
    THEN [s EXCEPT !.rdy[o] = Resolved(Void), !.mq = Append(@, <<"then", o>>)]
    ELSE s

RejectRdy(s, o, r) ==
    IF s.rdy[o] = Pending
    THEN [s EXCEPT !.rdy[o] = Rejected(r), !.mq = Append(@, <<"catch", o>>)]
    ELSE s

\* the promise of readyMPlayer's shutdown(): spawnMPlayer runs on either outcome
ResolveSd(s, o) ==
    IF s.sdRes[o] = Pending
    THEN [s EXCEPT !.sdRes[o] = Resolved(Void), !.mq = Append(@, <<"spawn", o>>)]
    ELSE s

RejectSd(s, o, r) ==
    IF s.sdRes[o] = Pending
    THEN [s EXCEPT !.sdRes[o] = Rejected(r), !.mq = Append(@, <<"spawn", o>>)]
    ELSE s

ResolveX(s, x) ==
    IF s.xRes[x] = Pending THEN [s EXCEPT !.xRes[x] = Resolved(Void)] ELSE s

RejectX(s, x, r) ==
    IF s.xRes[x] = Pending THEN [s EXCEPT !.xRes[x] = Rejected(r)] ELSE s

\* ------------------------------------------------------------ supervisor
\* proc.kill(): the terminate signal is sent to the process
Kill(s, p) == [s EXCEPT !.killed[p] = TRUE]

\* shutdown() as readyMPlayer calls it for operation o (line 232)
ShutdownSd(s, o) ==
    IF s.mplayerProc = 0
    THEN [s EXCEPT !.sdRes[o] = Resolved(Void), !.mq = Append(@, <<"spawn", o>>)]
    ELSE LET p == s.mplayerProc
             s1 == [s EXCEPT !.sdRes[o] = Pending,
                             !.lsn[p].exit = Append(@, <<"S", o>>),
                             !.lsn[p].error = Append(@, <<"S", o>>)]
         IN Kill(s1, p)

\* a shutdown() that does not complete when there is no handle
ShutdownXWaits(s, x) ==
    IF s.mplayerProc = 0
    THEN [s EXCEPT !.xRes[x] = Pending]
    ELSE LET p == s.mplayerProc
             s1 == [s EXCEPT !.xRes[x] = Pending,
                             !.xProc[x] = p,
                             !.lsn[p].exit = Append(@, <<"X", x>>),
                             !.lsn[p].error = Append(@, <<"X", x>>)]
         IN Kill(s1, p)

\* shutdown() as the caller calls it, for the x-th time
ShutdownX(s, x) ==
    IF s.mplayerProc = 0
    THEN [s EXCEPT !.xRes[x] = Resolved(Void)]
    ELSE LET p == s.mplayerProc
             s1 == [s EXCEPT !.xRes[x] = Pending,
                             !.xProc[x] = p,
                             !.lsn[p].exit = Append(@, <<"X", x>>),
                             !.lsn[p].error = Append(@, <<"X", x>>)]
         IN Kill(s1, p)

\* the executor of readyMPlayer's promise: the ready test does not return, so
\* shutdown().then(spawnMPlayer, spawnMPlayer) runs on both branches
readyMPlayer(s, o) ==
    LET s1 == IF s.ready /\ s.mplayerProc # 0
              THEN [s EXCEPT !.rdy[o] = Resolved(Void)]
              ELSE [s EXCEPT !.rdy[o] = Pending]
    IN ShutdownSd(s1, o)

\* a completion handler that leaves the ready flag as it is
handleProcCompletionKeepsReady(s) ==
    IF s.mplayerProc # 0
    THEN [s EXCEPT !.lsn[s.mplayerProc] = NoListeners, !.mplayerProc = 0]
    ELSE s

handleProcCompletion(s) ==
    LET s1 == IF s.mplayerProc # 0
              THEN [s EXCEPT !.lsn[s.mplayerProc] = NoListeners, !.mplayerProc = 0]
              ELSE s
    IN [s1 EXCEPT !.ready = FALSE]

\* a spawn that hands back the last child instead of starting a new one
spawnMPlayerReuse(s, o) ==
    LET p == IF s.nspawn = 0 THEN 1 ELSE s.nspawn
    IN [s EXCEPT !.nspawn = p,
                 !.mplayerProc = p,
                 !.pstate[p] = "running",
                 !.procOf[o] = p,
                 !.lsn[p] = [out |-> <<<<"R", o>>>>,
                             err |-> <<>>,
                             exit |-> <<<<"H", p>>, <<"R", o>>>>,
                             error |-> <<<<"H", p>>, <<"R", o>>>>]]

\* spawnMPlayer, run as the reaction of operation o's shutdown promise
spawnMPlayer(s, o) ==
    LET p == s.nspawn + 1
    IN [s EXCEPT !.nspawn = p,
                 !.mplayerProc = p,
                 !.pstate[p] = "running",
                 !.procOf[o] = p,
                 !.lsn[p] = [out |-> <<<<"R", o>>>>,
                             err |-> <<>>,
                             exit |-> <<<<"H", p>>, <<"R", o>>>>,
                             error |-> <<<<"H", p>>, <<"R", o>>>>]]

\* the onData of readyMPlayer for operation o reads this.mplayerProc.stdout
\* when a line holds the signature: a TypeError when the handle is undefined
ReadyOnDataThrows(s, lines) ==
    /\ s.mplayerProc = 0
    /\ \E i \in 1..Len(lines) : Includes(lines[i], Signature)

ReadyOnData(s, o, lines) ==
    IF \E i \in 1..Len(lines) : Includes(lines[i], Signature)
    THEN LET p == s.mplayerProc
             s1 == [s EXCEPT !.lsn[p].out = Remove(@, <<"R", o>>),
                             !.lsn[p].exit = Remove(@, <<"R", o>>),
                             !.lsn[p].error = Remove(@, <<"R", o>>),
                             !.ready = TRUE]
         IN ResolveRdy(s1, o)
    ELSE s

\* ------------------------------------------------------------- operation
\* if (timeout) timer = setTimeout(...)
ArmTimer(s, o) ==
    IF s.opTimeout[o] # 0 THEN [s EXCEPT !.timer[o] = "armed"] ELSE s

\* if (timer) clearTimeout(timer)
ClearTimer(s, o) ==
    IF s.timer[o] = "armed" THEN [s EXCEPT !.timer[o] = "cleared"] ELSE s

\* a timer callback that settles nothing
TimerCallbackIdle(s, o) == s

\* the timer's callback
TimerCallback(s, o) == RejectOp(s, o, TimedOut)

\* a cleanup that leaves the timer running
cleanupKeepsTimer(s, o) ==
    IF s.mplayerProc # 0
    THEN LET p == s.mplayerProc
         IN [s EXCEPT !.lsn[p].out = Remove(@, <<"O", o>>),
                      !.lsn[p].err = Remove(@, <<"O", o>>),
                      !.lsn[p].exit = Remove(@, <<"O", o>>),
                      !.lsn[p].error = Remove(@, <<"O", o>>)]
    ELSE s

\* cleanup removes the listeners from whatever this.mplayerProc is now
cleanup(s, o) ==
    LET s1 == IF s.mplayerProc # 0
              THEN LET p == s.mplayerProc
                   IN [s EXCEPT !.lsn[p].out = Remove(@, <<"O", o>>),
                                !.lsn[p].err = Remove(@, <<"O", o>>),
                                !.lsn[p].exit = Remove(@, <<"O", o>>),
                                !.lsn[p].error = Remove(@, <<"O", o>>)]
              ELSE s
    IN ClearTimer(s1, o)

\* the loop without its break: the lines after a verdict are classified too
RECURSIVE OpOnDataNoBreak(_, _, _)
OpOnDataNoBreak(s, o, lines) ==
    IF lines = <<>> THEN s
    ELSE LET data == Head(lines)
             v == processData(s.opKind[o], data)
             s1 == [s EXCEPT !.inv[o] = Append(@, data)]
             s2 == IF v[1] = "resolve" THEN ResolveOp(s1, o, v[2])
                   ELSE IF v[1] = "reject" THEN RejectOp(s1, o, v[2])
                   ELSE s1
             s3 == IF v[1] # "none" THEN cleanup(s2, o) ELSE s2
         IN OpOnDataNoBreak(s3, o, Tail(lines))

\* the loop of doOperation's onData over the lines of one chunk
RECURSIVE OpOnData(_, _, _)
OpOnData(s, o, lines) ==
    IF lines = <<>> THEN s
    ELSE LET data == Head(lines)
             v == processData(s.opKind[o], data)
             s1 == [s EXCEPT !.inv[o] = Append(@, data)]
             s2 == IF v[1] = "resolve" THEN ResolveOp(s1, o, v[2])
                   ELSE IF v[1] = "reject" THEN RejectOp(s1, o, v[2])
                   ELSE s1
         IN IF v[1] # "none" THEN cleanup(s2, o) ELSE OpOnData(s2, o, Tail(lines))

OpOnExit(s, o, info) == RejectOp(ClearTimer(s, o), o, ExitReason(info))

OpOnError(s, o, e) == RejectOp(ClearTimer(s, o), o, ErrReason(e))

\* lines 111-114
Subscribe(s, o) ==
    LET p == s.mplayerProc
    IN [s EXCEPT !.lsn[p].out = Append(@, <<"O", o>>),
                 !.lsn[p].err = Append(@, <<"O", o>>),
                 !.lsn[p].exit = Append(@, <<"O", o>>),
                 !.lsn[p].error = Append(@, <<"O", o>>),
                 !.subTo[o] = p]

Subscribed(s, p, o) ==
    /\ p # 0
    /\ Has(s.lsn[p].out, <<"O", o>>)
    /\ Has(s.lsn[p].err, <<"O", o>>)
    /\ Has(s.lsn[p].exit, <<"O", o>>)
    /\ Has(s.lsn[p].error, <<"O", o>>)

\* exec writes the command to this.mplayerProc.stdin: a TypeError when the
\* handle is undefined.  The caller's op calls it at once when it is invoked;
\* emitTo and subAtEmit record that first write.
exec(s, o) ==
    IF s.mplayerProc = 0
    THEN [s EXCEPT !.execd = "threw"]
    ELSE IF s.emitTo[o] = 0
    THEN [s EXCEPT !.execd = "wrote",
                   !.emitTo[o] = s.mplayerProc,
                   !.subAtEmit[o] = Subscribed(s, s.mplayerProc, o)]
    ELSE [s EXCEPT !.execd = "wrote"]

\* the fulfilment reaction of doOperation (lines 52-116)
OpThen(s, o) ==
    LET s1 == ArmTimer(s, o)
    IN IF s1.mplayerProc = 0 THEN s1 ELSE exec(Subscribe(s1, o), o)

\* the rejection reaction of doOperation (lines 117-119)
OpCatch(s, o) == RejectOp(s, o, s.rdy[o][2])

\* doOperation up to its return: the promise, readyMPlayer(), .then(...)
doOperation(s, t, k) ==
    LET o == s.nops + 1
        s1 == [s EXCEPT !.nops = o, !.opTimeout[o] = t, !.opKind[o] = k,
                        !.opRes[o] = Pending]
        s2 == readyMPlayer(s1, o)
    IN IF s2.rdy[o] = Resolved(Void)
       THEN [s2 EXCEPT !.mq = Append(@, <<"then", o>>)]
       ELSE s2

\* ---------------------------------------------------------------- events
CallData(s, l, lines) ==
    IF l[1] = "R" THEN ReadyOnData(s, l[2], lines) ELSE OpOnData(s, l[2], lines)

\* an emit that calls only the listener registered first
EmitDataFirstOnly(s, ls, lines) ==
    IF ls = <<>> THEN s
    ELSE IF Head(ls)[1] = "R" /\ ReadyOnDataThrows(s, lines) THEN s
    ELSE CallData(s, Head(ls), lines)

\* emit('data', chunk): the listeners registered at that moment, in order; a
\* throwing listener ends the emit
RECURSIVE EmitData(_, _, _)
EmitData(s, ls, lines) ==
    IF ls = <<>> THEN s
    ELSE IF Head(ls)[1] = "R" /\ ReadyOnDataThrows(s, lines) THEN s
    ELSE EmitData(CallData(s, Head(ls), lines), Tail(ls), lines)

CallExit(s, l, info) ==
    CASE l[1] = "H" -> handleProcCompletion(s)
      [] l[1] = "R" -> RejectRdy(s, l[2], ExitReason(info))
      [] l[1] = "O" -> OpOnExit(s, l[2], info)
      [] l[1] = "S" -> ResolveSd(s, l[2])
      [] l[1] = "X" -> ResolveX(s, l[2])

RECURSIVE EmitExit(_, _, _)
EmitExit(s, ls, info) ==
    IF ls = <<>> THEN s ELSE EmitExit(CallExit(s, Head(ls), info), Tail(ls), info)

CallError(s, l, e) ==
    CASE l[1] = "H" -> handleProcCompletion(s)
      [] l[1] = "R" -> RejectRdy(s, l[2], ErrReason(e))
      [] l[1] = "O" -> OpOnError(s, l[2], e)
      [] l[1] = "S" -> RejectSd(s, l[2], ErrReason(e))
      [] l[1] = "X" -> RejectX(s, l[2], ErrReason(e))

RECURSIVE EmitError(_, _, _)
EmitError(s, ls, e) ==
    IF ls = <<>> THEN s ELSE EmitError(CallError(s, Head(ls), e), Tail(ls), e)

\* --------------------------------------------------------------- actions
\* the caller calls doOperation(op, processData, timeout)
DoOperation(ks) ==
    /\ nops < MaxOps
    /\ \E t \in Timeouts, k \in ks : Install(doOperation(Cur, t, k))

\* the caller calls shutdown()
Shutdown(n) ==
    /\ nshut < n
    /\ Install(ShutdownX([Cur EXCEPT !.nshut = nshut + 1], nshut + 1))

\* the op of operation o, invoked earlier, calls the sendCommand it was given
\* once more
SendCommand(o) ==
    /\ emitTo[o] # 0
    /\ Install(exec(Cur, o))

\* the next promise reaction runs
Microtask ==
    /\ mq # <<>>
    /\ LET task == Head(mq)
           s == [Cur EXCEPT !.mq = Tail(mq)]
       IN Install(CASE task[1] = "spawn" -> spawnMPlayer(s, task[2])
                    [] task[1] = "then" -> OpThen(s, task[2])
                    [] task[1] = "catch" -> OpCatch(s, task[2]))

\* a chunk arrives on the stdout of process p
StdoutData(p, cs) ==
    /\ mq = <<>>
    /\ pstate[p] = "running"
    /\ \E chunk \in cs :
          Install(EmitData([Cur EXCEPT !.lastLines = Split(chunk), !.lastProc = p,
                                       !.sigSeen[p] = @ \/ Includes(chunk, Signature)],
                           lsn[p].out, Split(chunk)))

\* a chunk arrives on the stderr of process p
StderrData(p, cs) ==
    /\ mq = <<>>
    /\ pstate[p] = "running"
    /\ \E chunk \in cs :
          Install(EmitData([Cur EXCEPT !.lastLines = Split(chunk), !.lastProc = p],
                           lsn[p].err, Split(chunk)))

\* process p exits and its 'exit' event is delivered
ProcExit(p, infos) ==
    /\ mq = <<>>
    /\ pstate[p] = "running"
    /\ \E info \in infos :
          Install(EmitExit([Cur EXCEPT !.pstate[p] = "exited", !.pexit[p] = info,
                                       !.lastProc = p],
                           lsn[p].exit, info))

\* process p fails and its 'error' event is delivered
ProcError(p) ==
    /\ mq = <<>>
    /\ pstate[p] = "running"
    /\ \E e \in Errors :
          Install(EmitError([Cur EXCEPT !.pstate[p] = "errored",
                                        !.pexit[p] = ErrReason(e), !.lastProc = p],
                            lsn[p].error, e))

\* the timer of operation o fires
TimerFire(o) ==
    /\ mq = <<>>
    /\ timer[o] = "armed"
    /\ Install(TimerCallback([Cur EXCEPT !.timer[o] = "fired"], o))

Next ==
    \/ DoOperation(Kinds)
    \/ Shutdown(MaxShutdowns)
    \/ \E o \in Ops : SendCommand(o)
    \/ Microtask
    \/ \E p \in Procs : StdoutData(p, Chunks)
    \/ \E p \in Procs : StderrData(p, Chunks)
    \/ \E p \in Procs : ProcExit(p, ExitInfos)
    \/ \E p \in Procs : ProcError(p)
    \/ \E o \in Ops : TimerFire(o)

Spec == Init /\ [][Next]_vars

\* The same program with fewer inputs, for the liveness check: every classifier
\* a resolver, every chunk a single line, every exit by the terminate signal.
LiveNext ==
    \/ DoOperation({"resolver"})
    \/ Shutdown(MaxShutdowns)
    \/ \E o \in Ops : SendCommand(o)
    \/ Microtask
    \/ \E p \in Procs : StdoutData(p, ChunksOf(LiveMaxLines))
    \/ \E p \in Procs : StderrData(p, ChunksOf(LiveMaxLines))
    \/ \E p \in Procs : ProcExit(p, {<<"null", "SIGTERM">>})
    \/ \E p \in Procs : ProcError(p)
    \/ \E o \in Ops : TimerFire(o)

\* The event loop runs every queued reaction and fires every armed timer.
LiveSpec ==
    /\ Init
    /\ [][LiveNext]_vars
    /\ WF_vars(Microtask)
    /\ \A o \in Ops : WF_vars(TimerFire(o))

\* The same reduced inputs with the caller calling shutdown() again and again.
RepeatNext ==
    \/ DoOperation({"resolver"})
    \/ Shutdown(MaxRepeats)
    \/ \E o \in Ops : SendCommand(o)
    \/ Microtask
    \/ \E p \in Procs : StdoutData(p, ChunksOf(LiveMaxLines))
    \/ \E p \in Procs : StderrData(p, ChunksOf(LiveMaxLines))
    \/ \E p \in Procs : ProcExit(p, {<<"null", "SIGTERM">>})
    \/ \E p \in Procs : ProcError(p)
    \/ \E o \in Ops : TimerFire(o)

RepeatSpec == Init /\ [][RepeatNext]_vars

\* ---------------------------------------------------------------- claims
Listening(p, o) ==
    \/ Has(lsn[p].out, <<"O", o>>)
    \/ Has(lsn[p].err, <<"O", o>>)
    \/ Has(lsn[p].exit, <<"O", o>>)
    \/ Has(lsn[p].error, <<"O", o>>)

IsVerdict(o, data) == processData(opKind[o], data)[1] # "none"

\* the step is a doOperation call
CallStep == nops' = nops + 1

\* the step runs spawnMPlayer for operation o
SpawnStep(o) == procOf[o] = 0 /\ procOf'[o] # 0

\* the step delivers the exit or error event of process p
EndStep(p) == pstate[p] = "running" /\ pstate'[p] \in {"exited", "errored"}

\* the step delivers a chunk of process p
DataStep(p) == lastProc' = p /\ lastLines' # <<>>

\* C1: a doOperation call made while a handle exists and ready is true sends no
\* terminate signal, leaves the handle as it is, spawns nothing in the call, and
\* the readyMPlayer of such a call never goes on to spawn a process.
C1_ReadyCallKeepsProcess ==
    [][/\ (CallStep /\ ready /\ mplayerProc # 0)
            => (killed' = killed /\ mplayerProc' = mplayerProc /\ nspawn' = nspawn)
       /\ \A o \in Ops : SpawnStep(o) => rdy[o] = Pending]_vars

\* C2: once the timer has settled an operation with 'Timed out', none of its
\* listeners is attached to any process and no later chunk reaches its
\* processData.
C2_TimeoutDetaches ==
    /\ [](\A o \in Ops : opRes[o] = Rejected(TimedOut)
              => \A p \in Procs : ~Listening(p, o))
    /\ [][\A o \in Ops : opRes[o] = Rejected(TimedOut) => inv'[o] = <<>>]_vars

\* C3: an operation that is resolved or rejected keeps that outcome: no later
\* verdict, timer firing or exit/error event changes it or makes it pending.
C3_SettlesOnce ==
    [][\A o \in Ops : IsSettled(opRes[o]) => opRes'[o] = opRes[o]]_vars

\* C3 witness: a timed-out operation whose classifier has just called resolve
\* or reject on a later line, the outcome still being 'Timed out'.
C3_Witness ==
    \E o \in Ops :
        /\ opRes[o] = Rejected(TimedOut)
        /\ \E i \in 1..Len(inv[o]) : IsVerdict(o, inv[o][i])

\* C4: no process is spawned while the spawn sequence of another readyMPlayer
\* call is in flight, that is, has spawned its process and has neither resolved
\* nor rejected.
C4_NoOverlappingSpawn ==
    [][\A o \in Ops : SpawnStep(o)
          => \A o2 \in Ops \ {o} : ~(procOf[o2] # 0 /\ rdy[o2] = Pending)]_vars

\* C5: ready is true only while a handle is held and its process has delivered
\* neither exit nor error; the exit or error event of the handle's process clears
\* the handle and the ready flag in the step that delivers it.
C5_ReadyOnlyWhileAlive ==
    /\ [](ready => (mplayerProc # 0 /\ pstate[mplayerProc] = "running"))
    /\ [][\A p \in Procs : (EndStep(p) /\ mplayerProc = p)
              => (mplayerProc' = 0 /\ ~ready')]_vars

\* C5 witness: a process has exited and the supervisor is ready again with a
\* live handle.
C5_Witness ==
    /\ ready
    /\ mplayerProc # 0
    /\ \E p \in Procs : pstate[p] = "exited"

\* C6: when the process an unsettled operation subscribed to delivers exit (or
\* error), the operation is rejected with that exit code and signal (that error).
C6_ExitRejectsSubscribed ==
    [][\A o \in Ops : \A p \in Procs :
          (subTo[o] = p /\ opRes[o] = Pending /\ EndStep(p))
              => opRes'[o] = Rejected(IF pstate'[p] = "exited"
                                      THEN ExitReason(pexit'[p])
                                      ELSE pexit'[p])]_vars

\* C7: the handle never refers to a process that has delivered exit or error;
\* that event of the handle's process leaves no handle and ready false; a
\* doOperation call made with no handle completes nothing and queues a spawn; a
\* spawn makes a process that never ran before the handle; and a process is
\* spawned only by the spawnMPlayer of a call that has not spawned yet.
C7_FreshSpawnAfterExit ==
    /\ [](mplayerProc # 0 => pstate[mplayerProc] = "running")
    /\ [][/\ \A p \in Procs : (EndStep(p) /\ mplayerProc = p)
                => (mplayerProc' = 0 /\ ~ready')
          /\ (CallStep /\ mplayerProc = 0)
                => (rdy'[nops'] = Pending /\ mq' = Append(mq, <<"spawn", nops'>>))
          /\ \A o \in Ops : SpawnStep(o)
                => /\ mplayerProc' = procOf'[o]
                   /\ pstate[mplayerProc'] = "none"
                   /\ pstate'[mplayerProc'] = "running"
          /\ (nspawn' # nspawn \/ \E p \in Procs : pstate[p] # "running" /\ pstate'[p] = "running")
                => (mq # <<>> /\ Head(mq)[1] = "spawn" /\ SpawnStep(Head(mq)[2]))]_vars

\* C7 witness: a process exited without having been sent a signal, and a later
\* call has put a different, running process behind the handle.
C7_Witness ==
    \E p \in Procs :
        /\ pstate[p] = "exited"
        /\ ~killed[p]
        /\ mplayerProc \notin {0, p}
        /\ pstate[mplayerProc] = "running"
        /\ \A q \in Procs : q # p => ~killed[q]

\* C8: an operation with a timeout that has subscribed is eventually settled,
\* and the timer firing on an unsettled operation rejects it with 'Timed out'.
C8_TimeoutSettles ==
    /\ \A o \in Ops : (opTimeout[o] # 0 /\ subTo[o] # 0) ~> IsSettled(opRes[o])
    /\ [][\A o \in Ops : (timer[o] = "armed" /\ timer'[o] = "fired" /\ opRes[o] = Pending)
              => opRes'[o] = Rejected(TimedOut)]_vars
    /\ [](\A o \in Ops : (opTimeout[o] # 0 /\ subTo[o] # 0 /\ opRes[o] = Pending)
              => timer[o] = "armed")

\* C8 witness: a subscribed operation was settled by its timer.
C8_Witness ==
    \E o \in Ops :
        /\ subTo[o] # 0
        /\ timer[o] = "fired"
        /\ opRes[o] = Rejected(TimedOut)

\* C9: an operation's listeners are attached when its command is written, and
\* every chunk the process that got the command delivers while the operation is
\* unsettled reaches the operation's processData.
C9_SubscribedBeforeEmit ==
    [][\A o \in Ops :
          /\ (emitTo[o] = 0 /\ emitTo'[o] # 0) => subAtEmit'[o]
          /\ (emitTo[o] # 0 /\ opRes[o] = Pending /\ DataStep(emitTo[o]))
                => inv'[o] # <<>>]_vars

\* C10: of a chunk, processData gets the lines in order, each once, up to and
\* including the first line on which it gives a verdict and no line after it;
\* an unsettled operation is settled with exactly that line's value or reason.
C10_VerdictStopsChunk ==
    [][\A o \in Ops :
          LET n == Len(inv'[o])
          IN /\ n <= Len(lastLines')
             /\ \A i \in 1..n : inv'[o][i] = lastLines'[i]
             /\ \A i \in 1..(n - 1) : ~IsVerdict(o, inv'[o][i])
             /\ (n > 0 /\ n < Len(lastLines')) => IsVerdict(o, inv'[o][n])
             /\ (n > 0 /\ opRes[o] = Pending /\ IsVerdict(o, inv'[o][n]))
                   => opRes'[o] = IF opKind[o] = "resolver"
                                  THEN Resolved(inv'[o][n])
                                  ELSE Rejected(inv'[o][n])]_vars

\* C10 witness: a chunk of two lines whose first line resolved the operation;
\* the second line was not classified.
C10_Witness ==
    \E o \in Ops :
        /\ Len(lastLines) = 2
        /\ inv[o] = <<lastLines[1]>>
        /\ opRes[o] = Resolved(lastLines[1])

\* what the exit or error event of process p reported, as a rejection reason
EndReason(p) == IF pstate'[p] = "exited" THEN ExitReason(pexit'[p]) ELSE pexit'[p]

\* C11: when the process a pending caller shutdown sent its signal to delivers
\* exit or error, every unsettled operation subscribed to that process is
\* rejected with what the event reported, and on exit the shutdown resolves.
C11_ShutdownRejectsPending ==
    [][\A x \in Shuts : \A p \in Procs :
          (xProc[x] = p /\ xRes[x] = Pending /\ EndStep(p))
              => /\ \A o \in Ops : (subTo[o] = p /\ opRes[o] = Pending)
                        => opRes'[o] = Rejected(EndReason(p))
                 /\ pstate'[p] = "exited" => xRes'[x] = Resolved(Void)]_vars

\* the step is the caller's x-th shutdown() call
ShutdownStep(x) == nshut = x - 1 /\ nshut' = x

\* C12: a shutdown() call made while no handle exists resolves its promise in
\* the call, spawns nothing, sends no signal, registers no listener, queues
\* nothing and leaves the handle and the ready flag as they are, however many
\* shutdown() calls came before it.
C12_ShutdownIdempotent ==
    [][\A x \in Shuts : (ShutdownStep(x) /\ mplayerProc = 0)
          => /\ xRes'[x] = Resolved(Void)
             /\ xProc'[x] = 0
             /\ UNCHANGED <<mplayerProc, ready, nspawn, pstate, killed, lsn, mq>>]_vars

\* the third shutdown() call found no handle, after the first one had signalled
\* a process and resolved on its exit
C12_Witness ==
    /\ nshut = MaxRepeats
    /\ xProc[1] # 0 /\ xRes[1] = Resolved(Void)
    /\ xProc[MaxRepeats] = 0 /\ xRes[MaxRepeats] = Resolved(Void)

\* operation o waits for the readiness of process p
AwaitsReady(o, p) == procOf[o] = p /\ rdy[o] = Pending

\* C13: when a process that has not written the signature delivers exit or
\* error, the readiness promise of every operation waiting for it is rejected
\* with what the event reported; an operation whose readiness was rejected is
\* rejected with that same reason by the queued reaction, and it never wrote a
\* command, subscribed a listener or armed a timer.
C13_FailedStartRejects ==
    /\ [][\A p \in Procs : \A o \in Ops :
             (EndStep(p) /\ ~sigSeen[p] /\ AwaitsReady(o, p))
                 => rdy'[o] = Rejected(EndReason(p))]_vars
    /\ [](\A o \in Ops : rdy[o][1] = "rejected"
             => /\ \/ opRes[o] = Rejected(rdy[o][2])
                   \/ opRes[o] = Pending /\ Has(mq, <<"catch", o>>)
                /\ emitTo[o] = 0 /\ subTo[o] = 0 /\ timer[o] = "off")

\* operation o was settled by its classifier: resolved, or rejected with a line
\* the classifier matched (the other rejections carry 'Timed out', the exit
\* description or the error)
VerdictSettled(o) ==
    \/ opRes[o][1] = "resolved"
    \/ opRes[o][1] = "rejected" /\ Includes(opRes[o][2], Answer)

\* C14: an operation settled by a verdict of its classifier has no listener on
\* any process and no armed or fired timer; from then on no chunk reaches its
\* classifier and its timer stays as it is; applying cleanup a second time
\* changes nothing.
C14_VerdictDetaches ==
    /\ [](\A o \in Ops : VerdictSettled(o)
             => /\ \A p \in Procs : ~Listening(p, o)
                /\ timer[o] \in {"off", "cleared"})
    /\ [][\A o \in Ops : VerdictSettled(o)
             => inv'[o] = <<>> /\ timer'[o] = timer[o]]_vars
    /\ [](\A o \in Ops : cleanup(cleanup(Cur, o), o) = cleanup(Cur, o))

\* C14 witness: the process an operation subscribed to is still running and has
\* just delivered a chunk after the verdict; the classifier was not called and
\* the timer is cancelled.
C14_Witness ==
    \E o \in Ops :
        /\ VerdictSettled(o)
        /\ timer[o] = "cleared"
        /\ subTo[o] # 0 /\ pstate[subTo[o]] = "running"
        /\ lastProc = subTo[o] /\ lastLines # <<>> /\ inv[o] = <<>>

\* C15: a chunk delivered by process p reaches the classifier of every
\* operation holding data listeners on p, first line first, whatever the other
\* listeners did with it, and a first line that is a verdict settles every such
\* operation still pending.
C15_FanOut ==
    [][\A p \in Procs : \A o \in Ops :
          (DataStep(p) /\ Has(lsn[p].out, <<"O", o>>) /\ Has(lsn[p].err, <<"O", o>>))
              => /\ inv'[o] # <<>>
                 /\ inv'[o][1] = lastLines'[1]
                 /\ (opRes[o] = Pending /\ IsVerdict(o, lastLines'[1]))
                       => opRes'[o][1] \in {"resolved", "rejected"}
                          /\ opRes'[o][2] = lastLines'[1]]_vars

\* C15 witness: two operations wrote their commands to the same process and one
\* line of one chunk settled both of them.
C15_Witness ==
    /\ emitTo[1] # 0 /\ emitTo[1] = emitTo[2]
    /\ subTo[1] = emitTo[1] /\ subTo[2] = emitTo[1]
    /\ lastProc = emitTo[1]
    /\ Len(lastLines) = 1
    /\ inv[1] = lastLines /\ inv[2] = lastLines
    /\ opRes[1][1] \in {"resolved", "rejected"} /\ opRes[1][2] = lastLines[1]
    /\ opRes[2][1] \in {"resolved", "rejected"} /\ opRes[2][2] = lastLines[1]

\* C16: a shutdown() call made while a handle exists sends the terminate signal
\* to the handle's process and stays pending; when that process delivers exit
\* the shutdown resolves, when it delivers error the shutdown is rejected with
\* the error; at the moment the shutdown settles there is no handle and ready
\* is false.
C16_ShutdownCompletesOnExit ==
    /\ [][\A x \in Shuts : (ShutdownStep(x) /\ mplayerProc # 0)
             => /\ killed'[mplayerProc]
                /\ xProc'[x] = mplayerProc
                /\ xRes'[x] = Pending]_vars
    /\ [][\A x \in Shuts : \A p \in Procs :
             (xProc[x] = p /\ xRes[x] = Pending /\ EndStep(p))
                 => xRes'[x] = IF pstate'[p] = "exited"
                               THEN Resolved(Void)
                               ELSE Rejected(EndReason(p))]_vars
    /\ [][\A x \in Shuts : (xProc[x] # 0 /\ xRes[x] = Pending /\ xRes'[x] # Pending)
             => mplayerProc' = 0 /\ ready' = FALSE]_vars

\* C17: a step in which exec runs while there is no handle raises no error and
\* changes nothing of the supervisor, the processes, the listeners or the
\* promises.
C17_ExecWithoutHandleIsNoOp ==
    [][(mplayerProc = 0 /\ execd' # "no")
          => /\ execd' # "threw"
             /\ UNCHANGED <<mplayerProc, ready, nspawn, pstate, killed, lsn,
                            opRes, rdy, sdRes, xRes, timer, mq>>]_vars

\* C18: every process that is running and has not been sent the terminate
\* signal is the one the handle refers to, so there is at most one such process
\* and none the supervisor has lost track of.
C18_NoOrphan ==
    \A p \in Procs : (pstate[p] = "running" /\ ~killed[p]) => mplayerProc = p

\* readyMPlayer's own shutdown() has sent the terminate signal to process p
SupervisorKilled(p) == \E o \in Ops : Has(lsn[p].exit, <<"S", o>>)

\* C19: in the step in which an operation is invoked and writes its command,
\* the process written to has written the readiness signature on its own
\* stdout and readyMPlayer has not sent it the terminate signal.
C19_WritesToReadyProcess ==
    [][\A o \in Ops : \A p \in Procs : (emitTo[o] = 0 /\ emitTo'[o] = p)
          => sigSeen'[p] /\ ~SupervisorKilled(p)']_vars

====
